---- MODULE Spec2Model ----
(***************************************************************************)
(* A model of mergevec.py: merge_vec_files(vec_directory, output_vec_file). *)
(*                                                                         *)
(* Bytes are naturals 0..255, file contents are sequences of bytes.  A     *)
(* Python integer is kept as a pair <<hi, lo>> standing for                *)
(* hi * 65536 + lo with lo in 0..65535, so that the unbounded sum of the   *)
(* declared counts and the int32 range test of struct.pack are computed    *)
(* exactly.                                                                *)
(***************************************************************************)
EXTENDS Integers, Sequences, FiniteSets, TLC

\* Largest number of files the glob pattern matches.
MaxFiles == 3

\* Size of the '<iihh' header (content[:12], content[12:]).
HeaderLen == 12

\* the content of a path that names no file
NoFile == <<-1>>

\* the value of a local variable that no assignment has bound
Unbound == <<>>

-----------------------------------------------------------------------------
(* Python integers as <<hi, lo>> limbs                                      *)

PyInt(hi, lo) == <<hi, lo>>

\* total_num_images += num_images
IntAdd(a, b) ==
    LET s == a[2] + b[2]
    IN  <<a[1] + b[1] + (s \div 65536), s % 65536>>

\* the range struct.pack accepts for format 'i'
InInt32(a) == a[1] >= -32768 /\ a[1] <= 32767

\* the range struct.pack accepts for format 'h'
InInt16(h) == h >= -32768 /\ h <= 32767

-----------------------------------------------------------------------------
(* struct.pack / struct.unpack with format '<iihh'                          *)

\* two bytes, least significant first
U16LE(u) == <<u % 256, u \div 256>>

\* unsigned 16-bit value of two little-endian bytes
U16(b0, b1) == b0 + 256 * b1

\* two's complement reading of an unsigned 16-bit value
S16(u) == IF u >= 32768 THEN u - 65536 ELSE u

\* field 'i': four bytes little-endian, two's complement
PackI(a) == U16LE(a[2]) \o U16LE(a[1] % 65536)

\* field 'h': two bytes little-endian, two's complement
PackH(h) == U16LE(h % 65536)

\* struct.pack('<iihh', a, b, c, d) raises struct.error outside the ranges
PackOK(a, b, c, d) == InInt32(a) /\ InInt32(b) /\ InInt16(c) /\ InInt16(d)

struct_pack(a, b, c, d) == PackI(a) \o PackI(b) \o PackH(c) \o PackH(d)

UnpackI(s, off) == PyInt(S16(U16(s[off + 3], s[off + 4])), U16(s[off + 1], s[off + 2]))

UnpackH(s, off) == S16(U16(s[off + 1], s[off + 2]))

\* struct.unpack('<iihh', s) raises struct.error unless len(s) = 12
UnpackOK(s) == Len(s) = HeaderLen

struct_unpack(s) == <<UnpackI(s, 0), UnpackI(s, 4), UnpackH(s, 8), UnpackH(s, 10)>>

\* content[:12]
Head12(s) == SubSeq(s, 1, IF Len(s) < HeaderLen THEN Len(s) ELSE HeaderLen)

\* content[12:]
Tail12(s) == SubSeq(s, HeaderLen + 1, Len(s))

-----------------------------------------------------------------------------
(* vecfile.readlines() and ''.join(...)                                     *)

Newline == 10

\* length of the first line of s: up to and including the first newline byte
RECURSIVE LineLen(_, _)
LineLen(s, k) ==
    IF k > Len(s) THEN Len(s)
    ELSE IF s[k] = Newline THEN k
    ELSE LineLen(s, k + 1)

\* readlines(): the lines of s, each keeping its terminator
RECURSIVE readlines(_)
readlines(s) ==
    IF s = <<>> THEN <<>>
    ELSE LET n == LineLen(s, 1)
         IN  <<SubSeq(s, 1, n)>> \o readlines(SubSeq(s, n + 1, Len(s)))

\* ''.join(lines) where the items are byte strings (Python 2 str)
RECURSIVE join(_)
join(lines) ==
    IF lines = <<>> THEN <<>>
    ELSE Head(lines) \o join(Tail(lines))

-----------------------------------------------------------------------------
(* The file system and the inputs of a call                                 *)

\* Paths 1..MaxFiles are the names vec_directory/*.vec matches; path 0 is a
\* name the pattern does not match.  The matched names are numbered in the
\* order glob returns them; the contents range over every assignment, so
\* every enumeration order of a given set of files is covered.
VecPaths == 1..MaxFiles
Paths == {0} \cup VecPaths

\* a .vec file: header (count, size, min, max) followed by its payload
VecFile(c, s, mn, mx, payload) == struct_pack(c, s, mn, mx) \o payload

\* 50 records of 900 bytes; the payload holds a newline byte
FileA == VecFile(PyInt(0, 50), PyInt(0, 900), 0, 0, <<65, 10, 66>>)
\* 65535 records of 900 bytes, min and max set
FileB == VecFile(PyInt(0, 65535), PyInt(0, 900), -1, 255, <<67>>)
\* 2^31 - 1 records of 900 bytes, no payload
FileD == VecFile(PyInt(32767, 65535), PyInt(0, 900), 0, 0, <<>>)
\* -1 records of 1350 bytes
FileF == VecFile(PyInt(-1, 65535), PyInt(0, 1350), 0, 0, <<10, 69>>)
\* a file shorter than a header
FileT == <<1, 2, 3>>

SampleFiles == {FileA, FileB, FileD, FileF, FileT}

VARIABLES
    pyver,             \* 2: str is a byte string; 3: ''.join of bytes raises
    fs0,               \* the files before the call
    fs,                \* the files: path -> bytes on disk, or NoFile
    output_vec_file,   \* the path given as output
    pc,                \* position in merge_vec_files
    exit,              \* how the call ended
    files,             \* the list glob returned
    prev_image_size,
    image_size,
    total_num_images,
    f,                 \* position of the running for loop in files
    header,
    data,
    openIn,            \* input paths currently open
    outOpen,           \* the output file is open
    outOpens,          \* times the output file was opened
    inOpens,           \* times an input file was opened
    outbuf,            \* bytes handed to the output stream so far
    flushed,           \* how many of them are known to be on disk
    ioFaults           \* the I/O errors raised so far: <<pass, position, file>>,
                       \* file "input" (open, readlines) or "output" (open, write,
                       \* and the flush of the closing output: pass "close")

env == <<pyver, fs0, output_vec_file>>
locals == <<files, prev_image_size, image_size, total_num_images, f, header, data>>
handles == <<openIn, outOpen, outOpens, inOpens>>
stream == <<outbuf, flushed>>
vars == <<env, fs, pc, exit, locals, handles, stream, ioFaults>>

Init ==
    /\ pyver \in {2, 3}
    /\ \E n \in 0..MaxFiles :
          fs0 \in {d \in [Paths -> SampleFiles \cup {NoFile}] :
                      \A p \in Paths : (d[p] # NoFile) <=> (1 <= p /\ p <= n)}
    /\ fs = fs0
    /\ output_vec_file \in Paths
    /\ pc = "glob"
    /\ exit = "running"
    /\ files = <<>>
    /\ prev_image_size = PyInt(0, 0)
    /\ image_size = Unbound
    /\ total_num_images = PyInt(0, 0)
    /\ f = 0
    /\ header = <<>>
    /\ data = <<>>
    /\ openIn = {}
    /\ outOpen = FALSE
    /\ outOpens = 0
    /\ inOpens = 0
    /\ outbuf = <<>>
    /\ flushed = 0
    /\ ioFaults = {}

\* sys.exit(1), an uncaught exception, or the return of the function
Terminate(how) == pc' = "done" /\ exit' = how

\* glob.glob('{0}/*.vec'.format(vec_directory))
glob(d) == [i \in 1..Cardinality({p \in VecPaths : d[p] # NoFile}) |-> i]

\* the test of line 65 written as len(files) < 0
NoInputFiles_Never(n) == n < 0

\* lines 65-67: len(files) <= 0
NoInputFiles(n) == n <= 0

\* the test of line 69 written as len(files) < 1
InsufficientInputFiles_Never(n) == n < 1

\* lines 69-71: len(files) == 1
InsufficientInputFiles(n) == n = 1

\* a block that leaves the file open, as open() without 'with' would
WithExit_Leak(open, p) == open

\* leaving a 'with open(...) as vecfile' block closes the file
WithExit(open, p) == open \ {p}

\* content = ''.join(vecfile.readlines())
ReadContent(bytes) == join(readlines(bytes))

\* under Python 3 the join of bytes items (or the use of the empty str it
\* returns for an empty file) raises TypeError
JoinTypeError == pyver = 3

-----------------------------------------------------------------------------
(* lines 62-71: discovery and the two checks on the number of files         *)
(* (lines 75-76 strip a trailing '/' from vec_directory, which nothing      *)
(* reads afterwards)                                                        *)

Glob ==
    /\ pc = "glob"
    /\ files' = glob(fs)
    /\ IF NoInputFiles(Len(files')) THEN Terminate("NoInputFiles")
       ELSE IF InsufficientInputFiles(Len(files')) THEN Terminate("InsufficientInputFiles")
       ELSE pc' = "first_open" /\ exit' = exit
    /\ UNCHANGED <<env, fs, prev_image_size, image_size, total_num_images, f,
                   header, data, handles, stream, ioFaults>>

-----------------------------------------------------------------------------
(* lines 79-88: the first file's image size                                 *)

\* line 82: open(files[0], 'rb'); files[0] of an empty list is an IndexError
FirstOpen ==
    /\ pc = "first_open"
    /\ IF files = <<>>
       THEN /\ Terminate("IndexError")
            /\ UNCHANGED handles
       ELSE /\ pc' = "first_read"
            /\ exit' = exit
            /\ openIn' = openIn \cup {files[1]}
            /\ inOpens' = inOpens + 1
            /\ UNCHANGED <<outOpen, outOpens>>
    /\ UNCHANGED <<env, fs, locals, stream, ioFaults>>

\* line 82 raises IOError: the handler at line 87 formats f, which is not
\* bound before the loop of line 93: UnboundLocalError, uncaught
FirstOpenIOError ==
    /\ pc = "first_open"
    /\ files # <<>>
    /\ inOpens' = inOpens + 1
    /\ ioFaults' = ioFaults \cup {<<"first", 1, "input">>}
    /\ Terminate("UnboundLocalError")
    /\ UNCHANGED <<env, fs, locals, openIn, outOpen, outOpens, stream>>

\* lines 83-85
FirstRead ==
    /\ pc = "first_read"
    /\ LET content == ReadContent(fs[files[1]])
       IN  IF JoinTypeError
           THEN Terminate("TypeError") /\ UNCHANGED <<prev_image_size, total_num_images, f>>
           ELSE IF ~UnpackOK(Head12(content))
           THEN Terminate("struct.error") /\ UNCHANGED <<prev_image_size, total_num_images, f>>
           ELSE /\ prev_image_size' = struct_unpack(Head12(content))[2]
                /\ total_num_images' = PyInt(0, 0)
                /\ f' = 1
                /\ pc' = "scan_open"
                /\ exit' = exit
    /\ openIn' = WithExit(openIn, files[1])
    /\ UNCHANGED <<env, fs, files, image_size, header, data,
                   outOpen, outOpens, inOpens, stream, ioFaults>>

\* line 83 raises IOError: as for line 82
FirstReadIOError ==
    /\ pc = "first_read"
    /\ openIn' = WithExit(openIn, files[1])
    /\ ioFaults' = ioFaults \cup {<<"first", 1, "input">>}
    /\ Terminate("UnboundLocalError")
    /\ UNCHANGED <<env, fs, locals, outOpen, outOpens, inOpens, stream>>

-----------------------------------------------------------------------------
(* lines 91-109: the total number of images and the size check              *)

\* the for loop of line 93 takes the next file, or ends
NextInScan ==
    IF f < Len(files)
    THEN f' = f + 1 /\ pc' = "scan_open"
    ELSE f' = f /\ pc' = "pack"

\* line 95
ScanOpen ==
    /\ pc = "scan_open"
    /\ pc' = "scan_read"
    /\ openIn' = openIn \cup {files[f]}
    /\ inOpens' = inOpens + 1
    /\ UNCHANGED <<env, fs, exit, locals, outOpen, outOpens, stream, ioFaults>>

\* line 95 raises IOError: lines 107-109 print it and the loop goes on
ScanOpenIOError ==
    /\ pc = "scan_open"
    /\ inOpens' = inOpens + 1
    /\ ioFaults' = ioFaults \cup {<<"scan", f, "input">>}
    /\ NextInScan
    /\ UNCHANGED <<env, fs, exit, files, prev_image_size, image_size, total_num_images,
                   header, data, openIn, outOpen, outOpens, stream>>

\* lines 96-106
ScanRead ==
    /\ pc = "scan_read"
    /\ LET content == ReadContent(fs[files[f]])
           val == struct_unpack(Head12(content))
       IN  IF JoinTypeError
           THEN Terminate("TypeError") /\ UNCHANGED <<image_size, total_num_images, f>>
           ELSE IF ~UnpackOK(Head12(content))
           THEN Terminate("struct.error") /\ UNCHANGED <<image_size, total_num_images, f>>
           ELSE IF val[2] # prev_image_size
           THEN /\ image_size' = val[2]
                /\ Terminate("SizeMismatch")
                /\ UNCHANGED <<total_num_images, f>>
           ELSE /\ image_size' = val[2]
                /\ total_num_images' = IntAdd(total_num_images, val[1])
                /\ exit' = exit
                /\ NextInScan
    /\ openIn' = WithExit(openIn, files[f])
    /\ UNCHANGED <<env, fs, files, prev_image_size, header, data,
                   outOpen, outOpens, inOpens, stream, ioFaults>>

\* line 96 raises IOError: the file is closed, lines 107-109 print it and
\* the loop goes on
ScanReadIOError ==
    /\ pc = "scan_read"
    /\ openIn' = WithExit(openIn, files[f])
    /\ ioFaults' = ioFaults \cup {<<"scan", f, "input">>}
    /\ NextInScan
    /\ UNCHANGED <<env, fs, exit, files, prev_image_size, image_size, total_num_images,
                   header, data, outOpen, outOpens, inOpens, stream>>

-----------------------------------------------------------------------------
(* lines 112-125: the header and the payloads                               *)

\* line 114, outside the try: image_size is bound only by line 99
Pack ==
    /\ pc = "pack"
    /\ IF image_size = Unbound
       THEN Terminate("UnboundLocalError") /\ UNCHANGED header
       ELSE IF ~PackOK(total_num_images, image_size, 0, 0)
       THEN Terminate("struct.error") /\ UNCHANGED header
       ELSE /\ header' = struct_pack(total_num_images, image_size, 0, 0)
            /\ pc' = "out_open"
            /\ exit' = exit
    /\ UNCHANGED <<env, fs, files, prev_image_size, image_size, total_num_images,
                   f, data, handles, stream, ioFaults>>

\* the bytes of the stream on disk once the output file is closed
CloseOutput(bytes) == [fs EXCEPT ![output_vec_file] = bytes]

\* an IOError out of a write: a leading part of the bytes handed to the
\* buffered stream stays on disk, no shorter than what is already there and
\* short of the last byte of the failed write
LeftOnDisk(bytes) ==
    LET most == IF Len(bytes) > Len(outbuf) THEN Len(bytes) - 1 ELSE Len(bytes)
    IN  {SubSeq(bytes, 1, m) : m \in flushed..most}

\* lines 124-125: the exception is printed and the function returns
Caught(k, op) ==
    /\ ioFaults' = ioFaults \cup {<<"write", k, op>>}
    /\ Terminate("normal")

\* the end of the with block of line 116: close() flushes the bytes the
\* stream still buffers.  The flush succeeds and all of buf is on disk, or it
\* raises IOError and a leading part of buf stays there, no shorter than what
\* is already on disk; the IOError takes the place of the exception that left
\* the block, if any, and lines 124-125 catch it: the function returns.
ExitOutputBlock(buf, raised) ==
    /\ \E m \in flushed..Len(buf) :
          /\ fs' = CloseOutput(SubSeq(buf, 1, m))
          /\ flushed' = m
          /\ ioFaults' = ioFaults \cup raised \cup
                             (IF m < Len(buf) THEN {<<"close", 0, "output">>} ELSE {})
    /\ outOpen' = FALSE
    /\ Terminate("normal")

\* line 116: open(output_vec_file, 'wb') creates or truncates the file
OutOpen ==
    /\ pc = "out_open"
    /\ fs' = [fs EXCEPT ![output_vec_file] = <<>>]
    /\ outOpen' = TRUE
    /\ outOpens' = outOpens + 1
    /\ outbuf' = <<>>
    /\ flushed' = 0
    /\ pc' = "write_header"
    /\ UNCHANGED <<env, exit, locals, openIn, inOpens, ioFaults>>

\* line 116 raises IOError
OutOpenIOError ==
    /\ pc = "out_open"
    /\ Caught(0, "output")
    /\ UNCHANGED <<env, fs, locals, handles, stream>>

\* line 117
WriteHeader ==
    /\ pc = "write_header"
    /\ outbuf' = outbuf \o header
    /\ f' = 1
    /\ pc' = "w_open"
    /\ UNCHANGED <<env, fs, exit, files, prev_image_size, image_size, total_num_images,
                   header, data, handles, flushed, ioFaults>>

\* line 117 raises IOError: the with block closes the output
WriteHeaderIOError ==
    /\ pc = "write_header"
    /\ \E bytes \in LeftOnDisk(outbuf \o header) :
          /\ fs' = CloseOutput(bytes)
          /\ outbuf' = bytes
          /\ flushed' = Len(bytes)
    /\ outOpen' = FALSE
    /\ Caught(0, "output")
    /\ UNCHANGED <<env, locals, openIn, outOpens, inOpens>>

\* line 120
WOpen ==
    /\ pc = "w_open"
    /\ pc' = "w_read"
    /\ openIn' = openIn \cup {files[f]}
    /\ inOpens' = inOpens + 1
    /\ UNCHANGED <<env, fs, exit, locals, outOpen, outOpens, stream, ioFaults>>

\* line 120 raises IOError: the with block closes the output
WOpenIOError ==
    /\ pc = "w_open"
    /\ inOpens' = inOpens + 1
    /\ ExitOutputBlock(outbuf, {<<"write", f, "input">>})
    /\ UNCHANGED <<env, locals, openIn, outOpens, outbuf>>

\* lines 121-122.  A file that is also the open output holds what the stream
\* has flushed so far: some leading part of outbuf.
WRead ==
    /\ pc = "w_read"
    /\ \E m \in flushed..Len(outbuf) :
          LET ondisk == IF files[f] = output_vec_file
                        THEN SubSeq(outbuf, 1, m)
                        ELSE fs[files[f]]
              content == ReadContent(ondisk)
          IN  /\ files[f] # output_vec_file => m = flushed
              /\ IF JoinTypeError
                 THEN /\ ExitOutputBlock(outbuf, {})
                      /\ openIn' = WithExit(openIn, files[f])
                      /\ UNCHANGED data
                 ELSE /\ fs' = [fs EXCEPT ![output_vec_file] = SubSeq(outbuf, 1, m)]
                      /\ flushed' = m
                      /\ data' = Tail12(content)
                      /\ pc' = "w_write"
                      /\ UNCHANGED <<exit, outOpen, openIn, ioFaults>>
    /\ UNCHANGED <<env, files, prev_image_size, image_size, total_num_images, f,
                   header, outOpens, inOpens, outbuf>>

\* line 121 raises IOError: both with blocks close their files
WReadIOError ==
    /\ pc = "w_read"
    /\ openIn' = WithExit(openIn, files[f])
    /\ ExitOutputBlock(outbuf, {<<"write", f, "input">>})
    /\ UNCHANGED <<env, locals, outOpens, inOpens, outbuf>>

\* line 123, the end of the inner with block and the next turn of the loop
\* of line 119; after the last file the with block of line 116 ends: the
\* output is closed and the function returns
WWrite ==
    /\ pc = "w_write"
    /\ outbuf' = outbuf \o data
    /\ openIn' = WithExit(openIn, files[f])
    /\ IF f < Len(files)
       THEN /\ f' = f + 1
            /\ pc' = "w_open"
            /\ UNCHANGED <<fs, flushed, outOpen, exit, ioFaults>>
       ELSE /\ f' = f
            /\ ExitOutputBlock(outbuf', {})
    /\ UNCHANGED <<env, files, prev_image_size, image_size, total_num_images,
                   header, data, outOpens, inOpens>>

\* line 123 raises IOError: both with blocks close their files
WWriteIOError ==
    /\ pc = "w_write"
    /\ \E bytes \in LeftOnDisk(outbuf \o data) :
          /\ fs' = CloseOutput(bytes)
          /\ outbuf' = bytes
          /\ flushed' = Len(bytes)
    /\ openIn' = WithExit(openIn, files[f])
    /\ outOpen' = FALSE
    /\ Caught(f, "output")
    /\ UNCHANGED <<env, locals, outOpens, inOpens>>

-----------------------------------------------------------------------------

Next ==
    \/ Glob
    \/ FirstOpen
    \/ FirstOpenIOError
    \/ FirstRead
    \/ FirstReadIOError
    \/ ScanOpen
    \/ ScanOpenIOError
    \/ ScanRead
    \/ ScanReadIOError
    \/ Pack
    \/ OutOpen
    \/ OutOpenIOError
    \/ WriteHeader
    \/ WriteHeaderIOError
    \/ WOpen
    \/ WOpenIOError
    \/ WRead
    \/ WReadIOError
    \/ WWrite
    \/ WWriteIOError

Spec == Init /\ [][Next]_vars

TypeOK ==
    /\ pc \in {"glob", "first_open", "first_read", "scan_open", "scan_read", "pack",
               "out_open", "write_header", "w_open", "w_read", "w_write", "done"}
    /\ (pc = "done") <=> (exit # "running")
    /\ flushed <= Len(outbuf)

-----------------------------------------------------------------------------
(* The inputs of the call, as they were before it                           *)

\* number of files the pattern matched
N == Len(glob(fs0))

\* a file long enough to hold a header
WellFormed(bytes) == Len(bytes) >= HeaderLen

\* the header a matched file declares: <<count, size, min, max>>
Declared(p) == struct_unpack(Head12(fs0[p]))

\* at least two files, all with a header, all declaring one record size
InputsOK ==
    /\ N >= 2
    /\ \A p \in 1..N : WellFormed(fs0[p])
    /\ \A p \in 1..N : Declared(p)[2] = Declared(1)[2]

\* some file declares a record size other than the first file's
Mismatch ==
    /\ N >= 2
    /\ WellFormed(fs0[1])
    /\ \E p \in 2..N : WellFormed(fs0[p]) /\ Declared(p)[2] # Declared(1)[2]

\* the exact sum of the counts the first k files declare
RECURSIVE SumCounts(_)
SumCounts(k) == IF k = 0 THEN PyInt(0, 0) ELSE IntAdd(SumCounts(k - 1), Declared(k)[1])

\* the payloads of the first k files, in enumeration order
RECURSIVE Payloads(_)
Payloads(k) == IF k = 0 THEN <<>> ELSE Payloads(k - 1) \o Tail12(fs0[k])

ScanFault == \E k \in 1..MaxFiles : <<"scan", k, "input">> \in ioFaults

FirstFault == <<"first", 1, "input">> \in ioFaults

Aliased == output_vec_file \in 1..N

-----------------------------------------------------------------------------------------------------------------------------------------------------
(* Claims                                                                   *)

\* C1: for N >= 2 well-formed inputs declaring one record size, the header of
\* the output file decodes to (exact sum of every input's declared count, the
\* common record size, 0, 0).
C1_HeaderIsExactSum ==
    (InputsOK /\ pc = "done" /\ outOpens > 0 /\ Len(fs[output_vec_file]) >= HeaderLen)
        => struct_unpack(Head12(fs[output_vec_file]))
               = <<SumCounts(N), Declared(1)[2], 0, 0>>

\* C2: for N >= 2 well-formed inputs declaring one record size, a merge that
\* raised no I/O error and returned leaves an output whose bytes from offset
\* 12 on are the payloads the inputs had, in enumeration order.
C2_PayloadIsConcatenation ==
    (InputsOK /\ pc = "done" /\ exit = "normal" /\ ioFaults = {})
        => Tail12(fs[output_vec_file]) = Payloads(N)

\* C3: when some input declares a record size other than the first file's,
\* the output file is never opened, created or written.
C3_MismatchNeverOpensOutput ==
    Mismatch => outOpens = 0 /\ fs[output_vec_file] = fs0[output_vec_file]

\* C4: with no matching file the call goes from discovery straight to the
\* NoInputFiles failure, opens no input and no output, and leaves every file
\* as it was.
C4_NoInputFiles ==
    N = 0 => /\ pc \in {"glob", "done"}
             /\ pc = "done" => exit = "NoInputFiles"
             /\ inOpens = 0 /\ outOpens = 0
             /\ fs = fs0

C4_Witness == N = 0 /\ pc = "done" /\ exit = "NoInputFiles" /\ files = <<>>

\* C5: with exactly one matching file the call goes from discovery straight
\* to the InsufficientInputFiles failure and produces no output, whatever the
\* file holds.
C5_InsufficientInputFiles ==
    N = 1 => /\ pc \in {"glob", "done"}
             /\ pc = "done" => exit = "InsufficientInputFiles"
             /\ outOpens = 0
             /\ fs = fs0

C5_Witness ==
    /\ N = 1 /\ pc = "done" /\ exit = "InsufficientInputFiles"
    /\ files = <<1>> /\ ~WellFormed(fs0[1])

\* C6: an I/O error on an input in the first read or in the scanning loop
\* ends the call abnormally, and the output is never opened.
C6_ScanErrorAborts ==
    (FirstFault \/ ScanFault) => pc = "done" /\ exit # "normal" /\ outOpens = 0

\* C7: a call in which NoInputFiles, InsufficientInputFiles,
\* InconsistentRecordSize or an I/O failure occurred does not end normally.
C7_ErrorsEndAbnormally ==
    (pc = "done" /\ (N <= 1 \/ Mismatch \/ ioFaults # {})) => exit # "normal"

\* C8: after a call (here: one that raised no I/O error) every matched file
\* holds what it held before, and no file but the one at output_vec_file is
\* created or changed.
C8_InputsUnchanged ==
    (pc = "done" /\ ioFaults = {})
        => /\ \A p \in 1..N : fs[p] = fs0[p]
           /\ \A p \in Paths \ {output_vec_file} : fs[p] = fs0[p]

\* C9: at most one input file is open at a time, the output is opened at most
\* once, and no file is open when the call has ended, however it ended.
C9_ScopedFiles ==
    /\ Cardinality(openIn) <= 1
    /\ outOpens <= 1
    /\ pc = "done" => openIn = {} /\ ~outOpen

C9_Witness ==
    /\ pc = "done"
    /\ outOpens = 1
    /\ inOpens > N
    /\ \E k \in 2..N : <<"write", k, "input">> \in ioFaults

\* C10: when the only error of a call is raised opening or reading the k-th
\* input in the write pass, the output file afterwards holds the merged
\* header followed by the payloads the first k-1 inputs had.
C10_PartialOutputKept ==
    \A k \in 1..N :
        (pc = "done" /\ ioFaults = {<<"write", k, "input">>})
            => fs[output_vec_file] = header \o Payloads(k - 1)

-----------------------------------------------------------------------------
(* What holds apart from the two defects: the IOError that lines 107-109    *)
(* swallow in the scanning loop, and an output path that is a matched file  *)

\* the header is the exact sum when no scanning error was swallowed
HeaderExactUnlessScanFault == ~ScanFault => C1_HeaderIsExactSum

\* the payload is the concatenation when the output is not a matched file
PayloadExactUnlessAliased == ~Aliased => C2_PayloadIsConcatenation

\* a mismatch keeps the output closed when no scanning error was swallowed
MismatchAbortsUnlessScanFault == ~ScanFault => C3_MismatchNeverOpensOutput

\* an I/O error on the first file's read ends the call before any output
FirstFaultAborts ==
    FirstFault => pc = "done" /\ exit = "UnboundLocalError" /\ outOpens = 0

\* no path but output_vec_file is ever created or changed
OnlyOutputPathChanges == \A p \in Paths \ {output_vec_file} : fs[p] = fs0[p]

\* the partial output is header and payloads when the output is not a matched file
PartialOutputUnlessAliased == ~Aliased => C10_PartialOutputKept

\* a sum outside the int32 range ends the call at line 114, before the output
OverflowAborts ==
    (pc = "done" /\ InputsOK /\ ioFaults = {} /\ ~JoinTypeError /\ ~InInt32(SumCounts(N)))
        => exit = "struct.error" /\ outOpens = 0

====
